---------------------------- MODULE Spec2Model ----------------------------
(***************************************************************************)
(* A model of examples/sample.py: the module body (lines 56-67), the       *)
(* __main__ block (lines 70-88), and the names the module exports to an    *)
(* importer (Person, calculate_area, fetch_user_data, squares_generator).  *)
(*                                                                         *)
(* Python values are represented as follows.                               *)
(*   str    a TLA+ string                                                  *)
(*   int    an integer                                                     *)
(*   float  a decimal [m |-> mantissa, s |-> scale], standing for          *)
(*          m / 10^s; products are exact, so the model is the real-number  *)
(*          reading of the float arithmetic on short decimal inputs        *)
(*   list   a sequence                                                     *)
(*   dict   a sequence of <<key, value>> pairs in insertion order          *)
(* A global name that is not bound yet is absent from the set bound, and   *)
(* its variable holds a placeholder of the right type.                     *)
(***************************************************************************)
EXTENDS Integers, Sequences, FiniteSets, TLC

VARIABLES
    name,               \* __name__: "__main__" (run as a script) or "sample" (imported)
    pc,                 \* the next statement of the module, by source line
    out,                \* the lines written to standard output so far
    bound,              \* the names bound so far: globals, and the importer's p
    numbers,            \* line 56
    doubled,            \* line 57
    even,               \* line 58
    squares_generator,  \* line 59: the generator object
    name_to_age,        \* line 66
    age_to_name,        \* line 67
    person,             \* the Person under consideration (line 72, or the importer's)
    radius,             \* line 76
    area,               \* line 77
    colors,             \* line 81
    value,              \* line 86 (never bound: the conversion raises)
    exc,                \* the exception in flight between line 86 and line 88
    coro,               \* the importer's fetch_user_data coroutine object
    calls,              \* how many times the importer has called fetch_user_data
    ret,                \* the importer's last operation and what it returned
    ctor,               \* history: the arguments person was constructed from
    assigned,           \* history: an attribute of person was assigned since
    yielded             \* history: the values squares_generator has produced

vars == <<name, pc, out, bound, numbers, doubled, even, squares_generator,
          name_to_age, age_to_name, person, radius, area, colors, value, exc,
          coro, calls, ret, ctor, assigned, yielded>>

globals == <<numbers, doubled, even, name_to_age, age_to_name, radius, area,
             colors, value>>

(***************************************************************************)
(* Bounds of the model and the inputs an importer draws from.              *)
(***************************************************************************)
MaxFetch == 1

Names == {"Alice", "Bob"}
Ages == {-1, 30}
Radii == { [m |-> -50, s |-> 1], [m |-> -15, s |-> 1], [m |-> 0, s |-> 1],
           [m |-> 15, s |-> 1], [m |-> 50, s |-> 1] }
UserIds == {-1, 0, 42}

(***************************************************************************)
(* Formatting: str(int), repr(list), repr(float), format(float, ".2f").    *)
(***************************************************************************)
Digits == <<"0", "1", "2", "3", "4", "5", "6", "7", "8", "9">>

RECURSIVE NatStr(_)
NatStr(n) == IF n < 10 THEN Digits[n + 1]
             ELSE NatStr(n \div 10) \o Digits[(n % 10) + 1]

IntStr(n) == IF n < 0 THEN "-" \o NatStr(-n) ELSE NatStr(n)

\* The outcome of formatting an int inside an f-string: it raises nothing.
FStrInt(n) == [exc |-> "none", s |-> IntStr(n)]

RECURSIVE JoinInts(_)
JoinInts(xs) == IF xs = <<>> THEN ""
                ELSE IF Len(xs) = 1 THEN IntStr(xs[1])
                ELSE IntStr(xs[1]) \o ", " \o JoinInts(Tail(xs))

ListRepr(xs) == "[" \o JoinInts(xs) \o "]"

RECURSIVE Pow(_, _)
Pow(b, e) == IF e = 0 THEN 1 ELSE b * Pow(b, e - 1)

RECURSIVE ZeroPad(_, _)
ZeroPad(s, w) == IF Len(s) >= w THEN s ELSE ZeroPad("0" \o s, w)

\* A decimal with p places after the point, rounded half to even.
FixedStr(d, p) ==
    LET scale == Pow(10, d.s - p)
        a     == IF d.m < 0 THEN -d.m ELSE d.m
        q     == a \div scale
        r     == a % scale
        up    == 2 * r > scale \/ (2 * r = scale /\ q % 2 = 1)
        n     == IF up THEN q + 1 ELSE q
        unit  == Pow(10, p)
    IN  (IF d.m < 0 THEN "-" ELSE "")
            \o NatStr(n \div unit) \o "." \o ZeroPad(NatStr(n % unit), p)

\* repr of a float with one decimal place: 5.0 is "5.0".
FloatRepr(d) == FixedStr(d, 1)

Mul(a, b) == [m |-> a.m * b.m, s |-> a.s + b.s]

(***************************************************************************)
(* int(str): strip white space, an optional sign, then decimal digits      *)
(* with single underscores between them; anything else is a ValueError.    *)
(***************************************************************************)
WhiteSpace == {" ", "\t", "\n", "\r"}

RECURSIVE LStrip(_)
LStrip(s) == IF Len(s) > 0 /\ SubSeq(s, 1, 1) \in WhiteSpace
             THEN LStrip(SubSeq(s, 2, Len(s))) ELSE s

RECURSIVE RStrip(_)
RStrip(s) == IF Len(s) > 0 /\ SubSeq(s, Len(s), Len(s)) \in WhiteSpace
             THEN RStrip(SubSeq(s, 1, Len(s) - 1)) ELSE s

IsDigit(c) == \E i \in 1..10 : Digits[i] = c

DigitVal(c) == (CHOOSE i \in 1..10 : Digits[i] = c) - 1

ValidDigits(b) ==
    /\ Len(b) > 0
    /\ IsDigit(SubSeq(b, 1, 1))
    /\ IsDigit(SubSeq(b, Len(b), Len(b)))
    /\ \A i \in 1..Len(b) :
          \/ IsDigit(SubSeq(b, i, i))
          \/ /\ SubSeq(b, i, i) = "_"
             /\ i < Len(b)
             /\ IsDigit(SubSeq(b, i + 1, i + 1))

RECURSIVE DigitsVal(_, _)
DigitsVal(b, acc) ==
    IF Len(b) = 0 THEN acc
    ELSE IF SubSeq(b, 1, 1) = "_" THEN DigitsVal(SubSeq(b, 2, Len(b)), acc)
    ELSE DigitsVal(SubSeq(b, 2, Len(b)), 10 * acc + DigitVal(SubSeq(b, 1, 1)))

ParseIntLenient(s) == [ok |-> TRUE, v |-> 0, msg |-> ""]

ParseInt(s) ==
    LET t    == RStrip(LStrip(s))
        sign == IF Len(t) > 0 /\ SubSeq(t, 1, 1) = "-" THEN -1 ELSE 1
        b    == IF Len(t) > 0 /\ SubSeq(t, 1, 1) \in {"+", "-"}
                THEN SubSeq(t, 2, Len(t)) ELSE t
    IN  IF ValidDigits(b)
        THEN [ok |-> TRUE, v |-> sign * DigitsVal(b, 0), msg |-> ""]
        ELSE [ok |-> FALSE, v |-> 0,
              msg |-> "invalid literal for int() with base 10: '" \o s \o "'"]

(***************************************************************************)
(* dict operations on insertion-ordered sequences of pairs.                *)
(***************************************************************************)
HasKey(d, k) == \E i \in 1..Len(d) : d[i][1] = k

DictSetKeepFirst(d, k, v) ==
    IF HasKey(d, k) THEN d ELSE Append(d, <<k, v>>)

\* d[k] = v: a present key keeps its place and takes the new value.
DictSet(d, k, v) ==
    IF HasKey(d, k)
    THEN [i \in 1..Len(d) |-> IF d[i][1] = k THEN <<k, v>> ELSE d[i]]
    ELSE Append(d, <<k, v>>)

DictGetInserting(d, k, default) ==
    IF HasKey(d, k)
    THEN [val |-> d[CHOOSE i \in 1..Len(d) : d[i][1] = k][2], self |-> d]
    ELSE [val |-> default, self |-> Append(d, <<k, default>>)]

\* d.get(k, default): the value returned and the dict after the call.
DictGet(d, k, default) ==
    IF HasKey(d, k)
    THEN [val |-> d[CHOOSE i \in 1..Len(d) : d[i][1] = k][2], self |-> d]
    ELSE [val |-> default, self |-> d]

\* {age: name for name, age in items}
RECURSIVE InvertInto(_, _)
InvertInto(items, acc) ==
    IF items = <<>> THEN acc
    ELSE InvertInto(Tail(items), DictSet(acc, items[1][2], items[1][1]))

DictInvert(items) == InvertInto(items, <<>>)

(***************************************************************************)
(* class Person (a dataclass that is not frozen).                          *)
(***************************************************************************)
Person(n, a) == [name |-> n, age |-> a]

create_person_validating(n, a) == Person(n, IF a < 0 THEN 0 ELSE a)

create_person(n, a) == Person(n, a)

greet_unsigned(self) ==
    "Hello, my name is " \o self.name \o " and I am "
        \o NatStr(IF self.age < 0 THEN -self.age ELSE self.age) \o " years old."

greet(self) ==
    "Hello, my name is " \o self.name \o " and I am "
        \o FStrInt(self.age).s \o " years old."

\* self.<field> = v
SetAttr(self, field, v) == [self EXCEPT ![field] = v]

(***************************************************************************)
(* calculate_area                                                          *)
(***************************************************************************)
PI == [m |-> 314159, s |-> 5]

calculate_area_linear(r) == Mul(PI, r)

calculate_area(r) == Mul(Mul(PI, r), r)

(***************************************************************************)
(* fetch_user_data: what running the coroutine to completion prints and    *)
(* returns.  The body holds no await, so one send() runs all of it.        *)
(***************************************************************************)
None == [present |-> FALSE, data |-> [id |-> 0, name |-> "", email |-> ""]]

Some(d) == [present |-> TRUE, data |-> d]

fetch_user_data_raising(user_id) ==
    IF user_id < 0
    THEN [printed |-> <<"Error fetching user data: negative id">>, ret |-> None]
    ELSE [printed |-> <<"Fetching user data for ID: " \o IntStr(user_id)>>,
          ret |-> Some([id |-> user_id, name |-> "John Doe",
                        email |-> "user" \o IntStr(user_id) \o "@example.com"])]

fetch_user_data(user_id) ==
    LET f == FStrInt(user_id)
    IN  IF f.exc = "none"
        THEN [printed |-> <<"Fetching user data for ID: " \o f.s>>,
              ret |-> Some([id |-> user_id, name |-> "John Doe",
                            email |-> "user" \o f.s \o "@example.com"])]
        ELSE [printed |-> <<"Error fetching user data: " \o f.exc>>,
              ret |-> None]

(***************************************************************************)
(* The list comprehensions and sum of lines 57, 58 and 63.                 *)
(***************************************************************************)
DoubledPlus(nums) == [i \in 1..Len(nums) |-> nums[i] + 2]

\* [num * 2 for num in nums]
Doubled(nums) == [i \in 1..Len(nums) |-> nums[i] * 2]

RECURSIVE Even(_)
\* [num for num in nums if num % 2 == 0]
Even(nums) ==
    IF nums = <<>> THEN <<>>
    ELSE IF nums[1] % 2 = 0 THEN <<nums[1]>> \o Even(Tail(nums))
    ELSE Even(Tail(nums))

RECURSIVE Sum(_)
Sum(nums) == IF nums = <<>> THEN 0 ELSE nums[1] + Sum(Tail(nums))

(***************************************************************************)
(* The generator expression of line 59: (x**2 for x in range(10)).         *)
(* i is the position of the range iterator.                                *)
(***************************************************************************)
RangeStop == 10

NewGenerator == [i |-> 0, state |-> "created"]

GenNextInclusive(g) ==
    IF g.state = "closed" THEN [g |-> g, stop |-> TRUE, val |-> 0]
    ELSE IF g.i <= RangeStop
    THEN [g |-> [i |-> g.i + 1, state |-> "suspended"], stop |-> FALSE,
          val |-> Pow(g.i, 2)]
    ELSE [g |-> [g EXCEPT !.state = "closed"], stop |-> TRUE, val |-> 0]

\* next(g): the generator after the call, and the value or StopIteration.
GenNext(g) ==
    IF g.state = "closed" THEN [g |-> g, stop |-> TRUE, val |-> 0]
    ELSE IF g.i < RangeStop
    THEN [g |-> [i |-> g.i + 1, state |-> "suspended"], stop |-> FALSE,
          val |-> Pow(g.i, 2)]
    ELSE [g |-> [g EXCEPT !.state = "closed"], stop |-> TRUE, val |-> 0]

(***************************************************************************)
(* The initial state: the interpreter is about to run line 56.             *)
(***************************************************************************)
NoException == [type |-> "none", msg |-> ""]

\* Nothing returned yet; an operation fills in the fields of its result:
\* s (a str), r and a (a radius and its area), stop and n (StopIteration,
\* or the value yielded), opt (an Optional[Dict]).
NoReturn == [op |-> "none", s |-> "", r |-> [m |-> 0, s |-> 1],
             a |-> [m |-> 0, s |-> 7], stop |-> FALSE, n |-> 0, opt |-> None]

importer == <<coro, calls, ret, yielded>>
record == <<person, ctor, assigned>>

Init ==
    /\ name \in {"__main__", "sample"}
    /\ pc = "l56"
    /\ out = <<>>
    /\ bound = {}
    /\ numbers = <<>>
    /\ doubled = <<>>
    /\ even = <<>>
    /\ squares_generator = NewGenerator
    /\ name_to_age = <<>>
    /\ age_to_name = <<>>
    /\ person = Person("", 0)
    /\ radius = [m |-> 0, s |-> 1]
    /\ area = [m |-> 0, s |-> 7]
    /\ colors = <<>>
    /\ value = 0
    /\ exc = NoException
    /\ coro = [state |-> "none", user_id |-> 0]
    /\ calls = 0
    /\ ret = NoReturn
    /\ ctor = Person("", 0)
    /\ assigned = FALSE
    /\ yielded = <<>>

(***************************************************************************)
(* The module body, one action per statement.                              *)
(***************************************************************************)
Bind(g) == bound' = bound \cup {g}

print(line) == out' = Append(out, line)

L56 ==
    /\ pc = "l56"
    /\ numbers' = <<1, 2, 3, 4, 5>>
    /\ Bind("numbers")
    /\ pc' = "l57"
    /\ UNCHANGED <<name, out, doubled, even, squares_generator, name_to_age,
                   age_to_name, radius, area, colors, value, exc, record, importer>>

L57 ==
    /\ pc = "l57"
    /\ doubled' = Doubled(numbers)
    /\ Bind("doubled")
    /\ pc' = "l58"
    /\ UNCHANGED <<name, out, numbers, even, squares_generator, name_to_age,
                   age_to_name, radius, area, colors, value, exc, record, importer>>

L58 ==
    /\ pc = "l58"
    /\ even' = Even(numbers)
    /\ Bind("even")
    /\ pc' = "l59"
    /\ UNCHANGED <<name, out, numbers, doubled, squares_generator, name_to_age,
                   age_to_name, radius, area, colors, value, exc, record, importer>>

L59 ==
    /\ pc = "l59"
    /\ squares_generator' = NewGenerator
    /\ Bind("squares_generator")
    /\ pc' = "l61"
    /\ UNCHANGED <<name, out, globals, exc, record, importer>>

L61 ==
    /\ pc = "l61"
    /\ print("Doubled: " \o ListRepr(doubled))
    /\ pc' = "l62"
    /\ UNCHANGED <<name, bound, globals, squares_generator, exc, record, importer>>

L62 ==
    /\ pc = "l62"
    /\ print("Even numbers: " \o ListRepr(even))
    /\ pc' = "l63"
    /\ UNCHANGED <<name, bound, globals, squares_generator, exc, record, importer>>

L63 ==
    /\ pc = "l63"
    /\ print("Sum: " \o IntStr(Sum(numbers)))
    /\ pc' = "l66"
    /\ UNCHANGED <<name, bound, globals, squares_generator, exc, record, importer>>

L66 ==
    /\ pc = "l66"
    /\ name_to_age' = << <<"Alice", 30>>, <<"Bob", 25>>, <<"Charlie", 35>> >>
    /\ Bind("name_to_age")
    /\ pc' = "l67"
    /\ UNCHANGED <<name, out, numbers, doubled, even, squares_generator,
                   age_to_name, radius, area, colors, value, exc, record, importer>>

L67 ==
    /\ pc = "l67"
    /\ age_to_name' = DictInvert(name_to_age)
    /\ Bind("age_to_name")
    /\ pc' = "l70"
    /\ UNCHANGED <<name, out, numbers, doubled, even, squares_generator,
                   name_to_age, radius, area, colors, value, exc, record, importer>>

\* if __name__ == "__main__": an imported module is loaded here, and its
\* importer goes on; a script goes on to line 72.
L70Inverted ==
    /\ pc = "l70"
    /\ pc' = IF name = "__main__" THEN "loaded" ELSE "l72"
    /\ UNCHANGED <<name, out, bound, globals, squares_generator, exc, record,
                   importer>>

L70 ==
    /\ pc = "l70"
    /\ pc' = IF name = "__main__" THEN "l72" ELSE "loaded"
    /\ UNCHANGED <<name, out, bound, globals, squares_generator, exc, record,
                   importer>>

L72 ==
    /\ pc = "l72"
    /\ person' = Person("Alice", 30)
    /\ ctor' = [name |-> "Alice", age |-> 30]
    /\ assigned' = FALSE
    /\ Bind("person")
    /\ pc' = "l73"
    /\ UNCHANGED <<name, out, globals, squares_generator, exc, importer>>

L73 ==
    /\ pc = "l73"
    /\ print(greet(person))
    /\ pc' = "l76"
    /\ UNCHANGED <<name, bound, globals, squares_generator, exc, record, importer>>

L76 ==
    /\ pc = "l76"
    /\ radius' = [m |-> 50, s |-> 1]
    /\ Bind("radius")
    /\ pc' = "l77"
    /\ UNCHANGED <<name, out, numbers, doubled, even, squares_generator,
                   name_to_age, age_to_name, area, colors, value, exc, record,
                   importer>>

L77 ==
    /\ pc = "l77"
    /\ area' = calculate_area(radius)
    /\ Bind("area")
    /\ pc' = "l78"
    /\ UNCHANGED <<name, out, numbers, doubled, even, squares_generator,
                   name_to_age, age_to_name, radius, colors, value, exc, record,
                   importer>>

L78 ==
    /\ pc = "l78"
    /\ print("Area of circle with radius " \o FloatRepr(radius) \o ": "
                \o FixedStr(area, 2))
    /\ pc' = "l81"
    /\ UNCHANGED <<name, bound, globals, squares_generator, exc, record, importer>>

L81 ==
    /\ pc = "l81"
    /\ colors' = << <<"red", "#FF0000">>, <<"green", "#00FF00">>,
                    <<"blue", "#0000FF">> >>
    /\ Bind("colors")
    /\ pc' = "l82"
    /\ UNCHANGED <<name, out, numbers, doubled, even, squares_generator,
                   name_to_age, age_to_name, radius, area, value, exc, record,
                   importer>>

L82 ==
    /\ pc = "l82"
    /\ LET r == DictGet(colors, "yellow", "Not found")
       IN  /\ colors' = r.self
           /\ print("Yellow color code: " \o r.val)
    /\ pc' = "l86"
    /\ UNCHANGED <<name, bound, numbers, doubled, even, squares_generator,
                   name_to_age, age_to_name, radius, area, value, exc, record,
                   importer>>

\* try: value = int("not a number")
L86 ==
    /\ pc = "l86"
    /\ LET r == ParseInt("not a number")
       IN  IF r.ok
           THEN /\ value' = r.v
                /\ Bind("value")
                /\ exc' = NoException
                /\ pc' = "exit"
           ELSE /\ exc' = [type |-> "ValueError", msg |-> r.msg]
                /\ pc' = "l88"
                /\ UNCHANGED <<value, bound>>
    /\ UNCHANGED <<name, out, numbers, doubled, even, squares_generator,
                   name_to_age, age_to_name, radius, area, colors, record,
                   importer>>

\* except ValueError as e: print(f"Conversion error: {e}")
L88 ==
    /\ pc = "l88"
    /\ exc.type = "ValueError"
    /\ print("Conversion error: " \o exc.msg)
    /\ exc' = NoException
    /\ pc' = "exit"
    /\ UNCHANGED <<name, bound, globals, squares_generator, record, importer>>

ScriptStep ==
    \/ L56 \/ L57 \/ L58 \/ L59 \/ L61 \/ L62 \/ L63 \/ L66 \/ L67 \/ L70
    \/ L72 \/ L73 \/ L76 \/ L77 \/ L78 \/ L81 \/ L82 \/ L86 \/ L88

(***************************************************************************)
(* What an importer does with the loaded module's names.                   *)
(***************************************************************************)
script == <<name, pc, globals, exc>>

HasPerson == "person" \in bound \/ "p" \in bound

\* p = Person(n, a)
NewPerson(n, a) ==
    /\ pc = "loaded"
    /\ person' = Person(n, a)
    /\ ctor' = [name |-> n, age |-> a]
    /\ assigned' = FALSE
    /\ Bind("p")
    /\ ret' = [NoReturn EXCEPT !.op = "Person"]
    /\ UNCHANGED <<script, out, squares_generator, coro, calls, yielded>>

\* p = Person.create_person(n, a)
CreatePerson(n, a) ==
    /\ pc = "loaded"
    /\ person' = create_person(n, a)
    /\ ctor' = [name |-> n, age |-> a]
    /\ assigned' = FALSE
    /\ Bind("p")
    /\ ret' = [NoReturn EXCEPT !.op = "create_person"]
    /\ UNCHANGED <<script, out, squares_generator, coro, calls, yielded>>

\* p.greet()
Greet ==
    /\ pc = "loaded"
    /\ HasPerson
    /\ ret' = [NoReturn EXCEPT !.op = "greet", !.s = greet(person)]
    /\ UNCHANGED <<script, bound, out, squares_generator, record, coro, calls,
                   yielded>>

\* p.name = v, p.age = v: nothing forbids it, the dataclass is not frozen
Assign(field, v) ==
    /\ pc = "loaded"
    /\ HasPerson
    /\ person' = SetAttr(person, field, v)
    /\ assigned' = TRUE
    /\ ret' = [NoReturn EXCEPT !.op = "setattr"]
    /\ UNCHANGED <<script, bound, out, squares_generator, ctor, coro, calls,
                   yielded>>

\* calculate_area(r)
CalculateArea(r) ==
    /\ pc = "loaded"
    /\ ret' = [NoReturn EXCEPT !.op = "calculate_area", !.r = r,
                                 !.a = calculate_area(r)]
    /\ UNCHANGED <<script, bound, out, squares_generator, record, coro, calls,
                   yielded>>

\* next(squares_generator)
NextSquare ==
    /\ pc = "loaded"
    /\ LET r == GenNext(squares_generator)
       IN  /\ squares_generator' = r.g
           /\ yielded' = IF r.stop THEN yielded ELSE Append(yielded, r.val)
           /\ ret' = [NoReturn EXCEPT !.op = "next", !.stop = r.stop, !.n = r.val]
    /\ UNCHANGED <<script, bound, out, record, coro, calls>>

\* c = fetch_user_data(id): calling it only makes the coroutine object
CallFetch(id) ==
    /\ pc = "loaded"
    /\ calls < MaxFetch
    /\ calls' = calls + 1
    /\ coro' = [state |-> "created", user_id |-> id]
    /\ ret' = [NoReturn EXCEPT !.op = "fetch_user_data"]
    /\ UNCHANGED <<script, bound, out, squares_generator, record, yielded>>

\* c.send(None), as asyncio.run(c) or await c does: the body runs to its
\* return, printing on the way
RunFetch ==
    /\ pc = "loaded"
    /\ coro.state = "created"
    /\ LET r == fetch_user_data(coro.user_id)
       IN  /\ out' = out \o r.printed
           /\ ret' = [NoReturn EXCEPT !.op = "send", !.opt = r.ret]
    /\ coro' = [coro EXCEPT !.state = "closed"]
    /\ UNCHANGED <<script, bound, squares_generator, record, calls, yielded>>

ImporterStep ==
    \/ \E n \in Names, a \in Ages : NewPerson(n, a)
    \/ \E n \in Names, a \in Ages : CreatePerson(n, a)
    \/ Greet
    \/ \E a \in Ages : Assign("age", a)
    \/ \E n \in Names : Assign("name", n)
    \/ \E r \in Radii : CalculateArea(r)
    \/ NextSquare
    \/ \E id \in UserIds : CallFetch(id)
    \/ RunFetch

Next == ScriptStep \/ ImporterStep

Spec == Init /\ [][Next]_vars

\* The interpreter always runs the next statement of the module.
FairSpec == Spec /\ WF_vars(ScriptStep)

(***************************************************************************)
(* Properties.                                                             *)
(***************************************************************************)
IsPrefix(s, t) == Len(s) <= Len(t) /\ s = SubSeq(t, 1, Len(s))

StartsWith(s, p) == Len(s) >= Len(p) /\ SubSeq(s, 1, Len(p)) = p

IsMain == name = "__main__"

ExpectedOutput ==
    << "Doubled: [2, 4, 6, 8, 10]",
       "Even numbers: [2, 4]",
       "Sum: 15",
       "Hello, my name is Alice and I am 30 years old.",
       "Area of circle with radius 5.0: 78.54",
       "Yellow color code: Not found",
       "Conversion error: invalid literal for int() with base 10: 'not a number'" >>

\* C1: run as the main program, the script writes exactly the seven
\* expected lines, in order, and then exits normally: its output is always
\* a prefix of them, it reaches the exit with all seven written and no
\* exception in flight, nothing runs after the exit, and fetch_user_data
\* is never called, so no line of it appears.
C1_MainOutput ==
    /\ [](IsMain => /\ IsPrefix(out, ExpectedOutput)
                    /\ coro.state = "none" /\ calls = 0
                    /\ \A i \in 1..Len(out) :
                          ~StartsWith(out[i], "Fetching user data")
                    /\ (pc = "exit" => out = ExpectedOutput /\ exc = NoException))
    /\ [][pc # "exit"]_vars
    /\ (IsMain ~> (pc = "exit" /\ Len(out) = 7))

C1_Witness == IsMain /\ pc = "exit" /\ out = ExpectedOutput

\* C2: int("not a number") raises ValueError; the handler of line 88 catches
\* it where it is raised and prints the Conversion error line; the script
\* goes on to its exit with no exception in flight and never tries the
\* conversion again; the failed attempt binds nothing (value stays unbound)
\* and changes no global, no record and no output.
C2_ConversionError ==
    /\ [](/\ ~ParseInt("not a number").ok
          /\ "value" \notin bound /\ value = 0
          /\ (pc = "l88" => exc.type = "ValueError" /\ ENABLED L88)
          /\ (pc # "l88" => exc = NoException)
          /\ (pc = "exit" =>
                /\ Len(out) = 7
                /\ out[7] = "Conversion error: invalid literal for int() "
                               \o "with base 10: 'not a number'"))
    /\ [][pc = "l86" => /\ pc' = "l88"
                        /\ UNCHANGED <<globals, bound, out, record, importer>>]_vars
    /\ [][pc' = "l86" => pc = "l82"]_vars
    /\ [][pc = "l88" => pc' = "exit"]_vars

C2_Witness == pc = "exit" /\ Len(out) = 7 /\ "value" \notin bound

\* C3, as the spec states it: in every state the record's name and age are
\* the values passed at construction.
C3_Immutable == HasPerson => person = ctor

\* C3, amended: the record's name and age are the values passed at
\* construction until an attribute of it is assigned; only constructing a
\* record or assigning an attribute changes it (greet does not).
C3_FixedUntilAssigned ==
    /\ [](HasPerson /\ ~assigned => person = ctor)
    /\ [][person' # person =>
            ret'.op \in {"Person", "create_person", "setattr"} \/ pc = "l72"]_vars

C3_Witness ==
    HasPerson /\ ~assigned /\ ret.op = "greet" /\ person = Person("Bob", -1)

C5_Area ==
    /\ ("area" \in bound => /\ radius = [m |-> 50, s |-> 1]
                             /\ area = [m |-> 785397500, s |-> 7]
                             /\ FixedStr(area, 2) = "78.54")
    /\ (ret.op = "calculate_area" /\ ret.r = [m |-> 50, s |-> 1] =>
          FixedStr(ret.a, 2) = "78.54")
    /\ (IsMain /\ Len(out) >= 5 =>
          out[5] = "Area of circle with radius 5.0: 78.54")
    /\ (ret.op = "calculate_area" =>
          LET r == ret.r
              a == ret.a
          IN  /\ a = [m |-> 314159 * r.m * r.m, s |-> 7]
              /\ a.m >= 0
              /\ a = calculate_area([m |-> -r.m, s |-> r.s]))
    /\ (pc = "loaded" => \A r \in Radii : ENABLED CalculateArea(r))

C5_Witness == ret.op = "calculate_area" /\ ret.r.m < 0 /\ ret.a.m > 0

\* C6: doubled has the length and order of numbers with every element
\* doubled, [2, 4, 6, 8, 10]; even is, in order, exactly the elements of
\* numbers divisible by 2, [2, 4]; the sum printed is 15; and numbers is
\* still [1, 2, 3, 4, 5] afterwards.
C6_Comprehensions ==
    /\ ("numbers" \in bound => numbers = <<1, 2, 3, 4, 5>>)
    /\ ("doubled" \in bound =>
          /\ Len(doubled) = Len(numbers)
          /\ \A i \in 1..Len(numbers) : doubled[i] = 2 * numbers[i]
          /\ doubled = <<2, 4, 6, 8, 10>>)
    /\ ("even" \in bound =>
          /\ even = <<2, 4>>
          /\ \A i \in 1..Len(numbers) :
                (numbers[i] % 2 = 0) <=> (\E j \in 1..Len(even) : even[j] = numbers[i])
          /\ \A j \in 1..Len(even) : \E i \in 1..Len(numbers) : numbers[i] = even[j])
    /\ (Len(out) >= 3 => /\ out[1] = "Doubled: [2, 4, 6, 8, 10]"
                         /\ out[2] = "Even numbers: [2, 4]"
                         /\ out[3] = "Sum: 15")

C6_Witness == Len(out) >= 3 /\ {"numbers", "doubled", "even"} \subseteq bound

\* C7: age_to_name is {30: "Alice", 25: "Bob", 35: "Charlie"}: every
\* (name, age) of name_to_age has age_to_name[age] = name, both have the
\* same number of entries, inverting age_to_name gives name_to_age back,
\* and were two names to share an age the later one would take the entry.
C7_Inversion ==
    /\ DictInvert(<< <<"Alice", 30>>, <<"Bob", 30>> >>) = << <<30, "Bob">> >>
    /\ DictInvert(<< <<"Alice", 30>>, <<"Bob", 25>>, <<"Charlie", 30>> >>)
          = << <<30, "Charlie">>, <<25, "Bob">> >>
    /\ ("age_to_name" \in bound =>
          /\ age_to_name = << <<30, "Alice">>, <<25, "Bob">>, <<35, "Charlie">> >>
          /\ \A i \in 1..Len(name_to_age) :
                DictGet(age_to_name, name_to_age[i][2], "").val = name_to_age[i][1]
          /\ Len(age_to_name) = Len(name_to_age)
          /\ DictInvert(age_to_name) = name_to_age)

C7_Witness == "age_to_name" \in bound /\ Len(age_to_name) = 3

\* C8: colors.get(k, "Not found") returns the mapped value for each of red,
\* green and blue and "Not found" for any other key; it leaves colors as it
\* was, with no key added; the script's lookup of yellow prints Not found.
C8_Lookup ==
    "colors" \in bound =>
        /\ colors = << <<"red", "#FF0000">>, <<"green", "#00FF00">>,
                       <<"blue", "#0000FF">> >>
        /\ DictGet(colors, "red", "Not found").val = "#FF0000"
        /\ DictGet(colors, "green", "Not found").val = "#00FF00"
        /\ DictGet(colors, "blue", "Not found").val = "#0000FF"
        /\ \A k \in {"yellow", "purple", "", "Red"} :
              DictGet(colors, k, "Not found").val = "Not found"
        /\ \A k \in {"red", "green", "blue", "yellow", "purple", "", "Red"} :
              DictGet(colors, k, "Not found").self = colors
        /\ (Len(out) >= 6 => out[6] = "Yellow color code: Not found")

C8_Witness == "colors" \in bound /\ Len(out) >= 6 /\ pc = "l86"

Squares == <<0, 1, 4, 9, 16, 25, 36, 49, 64, 81>>

\* C9: squares_generator yields 0, 1, 4, ..., 81 in that order, ten values,
\* and is then exhausted: once it has stopped, a further next() yields
\* nothing and leaves it stopped.  The script itself never takes a value
\* from it.
C9_Squares ==
    /\ [](/\ IsPrefix(yielded, Squares)
          /\ Len(yielded) = squares_generator.i
          /\ (squares_generator.state = "closed" =>
                yielded = Squares /\ Len(yielded) = 10)
          /\ (ret.op = "next" /\ ret.stop => squares_generator.state = "closed")
          /\ (IsMain => yielded = <<>> /\ squares_generator = NewGenerator))
    /\ [][squares_generator.state = "closed" =>
            UNCHANGED <<squares_generator, yielded>>]_vars

C9_Witness ==
    /\ squares_generator.state = "closed"
    /\ ret.op = "next" /\ ret.stop
    /\ yielded = Squares

=============================================================================
